---- MODULE Spec2Model ----
(***************************************************************************)
(* SFORunwayTracker (its-a-plane-python/utilities/overhead.py).            *)
(*                                                                         *)
(* Coordinates are fixed-point integers in units of 0.00005 degrees, so    *)
(* that the four runway thresholds, the midpoints of both pairs and the    *)
(* proximity threshold are exact.  Distances are compared squared: sqrt is *)
(* monotone, so the order of the comparisons of the source is kept.        *)
(* A flight is a record that has exactly the attributes the provider gave  *)
(* it: hasattr(flight, 'x') is "x" \in DOMAIN flight.                      *)
(***************************************************************************)
EXTENDS Integers, Sequences, FiniteSets, Bags, TLC

\* ------------------------------------------------------------------ bounds
MaxCycles == 2          \* grab_data() calls (worker threads) per behaviour
MaxFlights == 2         \* length of the heading lists of the direct calls

\* ------------------------------------------------------- module constants
None == "None"

RUNWAY_28_THRESHOLD ==
    [ r \in {"28L", "28R", "10L", "10R"} |->
        CASE r = "28L" -> [lat |-> 752322, lon |-> -2447160]
          [] r = "28R" -> [lat |-> 752376, lon |-> -2447060]
          [] r = "10L" -> [lat |-> 752426, lon |-> -2447580]
          [] r = "10R" -> [lat |-> 752382, lon |-> -2447590] ]

MAX_FLIGHT_LOOKUP == 10
LANDING_ALTITUDE_THRESHOLD == 1000
TAKEOFF_ALTITUDE_THRESHOLD == 3000
RUNWAY_PROXIMITY_THRESHOLD == 200
RETRIES == 3

Pair28 == <<"28L", "28R">>
Pair10 == <<"10L", "10R">>

hasattr(flight, name) == name \in DOMAIN flight

\* ---------------------------------------------- classification primitives

\* The for loop of determine_runway_config: the two counters after flight k.
RECURSIVE count_operations(_, _, _, _)
count_operations(flights, k, west_operations, east_operations) ==
    IF k > Len(flights)
    THEN [west |-> west_operations, east |-> east_operations]
    ELSE LET flight == flights[k] IN
         IF hasattr(flight, "heading")
         THEN IF 260 <= flight.heading /\ flight.heading <= 300
              THEN count_operations(flights, k + 1, west_operations + 1, east_operations)
              ELSE IF 80 <= flight.heading /\ flight.heading <= 120
                   THEN count_operations(flights, k + 1, west_operations, east_operations + 1)
                   ELSE count_operations(flights, k + 1, west_operations, east_operations)
         ELSE count_operations(flights, k + 1, west_operations, east_operations)

EastWins_Mutant(counts) == counts.east >= counts.west

EastWins(counts) == counts.east > counts.west

\* The value determine_runway_config stores in self._active_runways.
determine_runway_config(flights) ==
    IF EastWins(count_operations(flights, 1, 0, 0)) THEN Pair10 ELSE Pair28

determine_operation_Mutant(flight) ==
    IF ~hasattr(flight, "altitude") \/ ~hasattr(flight, "vertical_speed")
    THEN None
    ELSE IF flight.altitude < LANDING_ALTITUDE_THRESHOLD /\ flight.vertical_speed < 0
         THEN "Landing"
         ELSE IF flight.altitude <= TAKEOFF_ALTITUDE_THRESHOLD /\ flight.vertical_speed > 0
              THEN "Takeoff"
              ELSE None

determine_operation(flight) ==
    IF ~hasattr(flight, "altitude") \/ ~hasattr(flight, "vertical_speed")
    THEN None
    ELSE IF flight.altitude <= LANDING_ALTITUDE_THRESHOLD /\ flight.vertical_speed < 0
         THEN "Landing"
         ELSE IF flight.altitude <= TAKEOFF_ALTITUDE_THRESHOLD /\ flight.vertical_speed > 0
              THEN "Takeoff"
              ELSE None

\* Squared planar distance of a flight to the threshold of a runway.
distance2(flight, runway) ==
    LET threshold == RUNWAY_28_THRESHOLD[runway] IN
    (flight.latitude - threshold.lat) * (flight.latitude - threshold.lat)
      + (flight.longitude - threshold.lon) * (flight.longitude - threshold.lon)

Infinity == -1

\* The for loop of determine_runway over the runways of the active pair.
RECURSIVE closest_scan(_, _, _, _, _)
closest_scan(flight, runways, k, closest_runway, min_distance) ==
    IF k > Len(runways)
    THEN [closest_runway |-> closest_runway, min_distance |-> min_distance]
    ELSE LET distance == distance2(flight, runways[k]) IN
         IF min_distance = Infinity \/ distance < min_distance
         THEN closest_scan(flight, runways, k + 1, runways[k], distance)
         ELSE closest_scan(flight, runways, k + 1, closest_runway, min_distance)

SearchedRunways_Mutant(active_runways) == <<"28L", "28R", "10L", "10R">>

\* The runways determine_runway iterates over: self._active_runways.
SearchedRunways(active_runways) == active_runways

determine_runway(flight, active_runways) ==
    IF ~hasattr(flight, "latitude") \/ ~hasattr(flight, "longitude")
    THEN None
    ELSE LET scan == closest_scan(flight, SearchedRunways(active_runways), 1, None, Infinity) IN
         IF scan.min_distance # Infinity
              /\ scan.min_distance <= RUNWAY_PROXIMITY_THRESHOLD * RUNWAY_PROXIMITY_THRESHOLD
         THEN scan.closest_runway
         ELSE None

\* ------------------------------------------------------------ the provider
\* Flights the provider reports inside SFO_ZONE.
FlightLanding28L ==
    [callsign |-> "UAL1", latitude |-> 752322, longitude |-> -2447160,
     altitude |-> 500, vertical_speed |-> -10, heading |-> 280]
FlightTakeoff10R ==
    [callsign |-> "SWA2", latitude |-> 752282, longitude |-> -2447590,
     altitude |-> 2000, vertical_speed |-> 15, heading |-> 100]
FlightCruise ==
    [callsign |-> "DAL3", latitude |-> 752322, longitude |-> -2447160,
     altitude |-> 5000, vertical_speed |-> 0, heading |-> 100]
FlightNoHeading ==
    [callsign |-> "N4", latitude |-> 752322, longitude |-> -2447160,
     altitude |-> 500, vertical_speed |-> -10]

\* Results of get_flights(bounds): provider order, fields may be missing.
FlightParked ==
    [callsign |-> "GND5", latitude |-> 752426, longitude |-> -2447580]

\* More flights than MAX_FLIGHT_LOOKUP: the only heading is beyond the cut.
CrowdedZone ==
    [i \in 1..(MAX_FLIGHT_LOOKUP + 1) |->
        IF i <= MAX_FLIGHT_LOOKUP THEN FlightParked ELSE FlightTakeoff10R]

ProviderFlights ==
    { <<>>,
      <<FlightLanding28L, FlightNoHeading>>,
      <<FlightTakeoff10R, FlightCruise>>,
      CrowdedZone }

\* Payloads of get_flight_details: with and without the aircraft/airline keys.
DetailPayloads ==
    { [airline |-> "United"] }

\* details.get("aircraft", {}).get("model", {}).get("code", "Unknown")
aircraft_code(details) ==
    IF "aircraft" \in DOMAIN details THEN details.aircraft ELSE "Unknown"

\* details.get("airline", {}).get("name", "Unknown")
airline_name(details) ==
    IF "airline" \in DOMAIN details THEN details.airline ELSE "Unknown"

\* ------------------------------------------------------------------- state
\* Worker threads are anonymous: the live ones are a bag of their local states,
\* a thread enters the bag when Thread(...).start() creates it and leaves it
\* when _grab_data returns.  A local that is no longer read is reset.
VARIABLES
    _data,            \* self._data
    _new_data,        \* self._new_data
    _processing,      \* self._processing
    _active_runways,  \* self._active_runways
    lock,             \* self._lock: "free", or held by "consumer" or by a "worker"
    threads,          \* bag of [pc, flights, idx, retries, data, returned, due], one per live thread
    started,          \* number of grab_data() calls so far
    cpc,              \* position of the consumer
    ret,              \* value of the consumer's last expression `tracker.data`
    idleSeen,         \* the consumer's last `tracker.processing` was False, no grab_data() since
    polite,           \* every grab_data() so far was the first or followed such a reading
    last_outcome,     \* how the last _grab_data to return ended: "none" so far, "success", "failure"
    overlap,          \* some grab_data() was called while a thread was live
    call              \* last direct call of a classification method

vars == <<_data, _new_data, _processing, _active_runways, lock, threads, started,
          cpc, ret, idleSeen, polite, last_outcome, overlap, call>>

\* SFORunwayTracker.__init__: no thread started, the consumer about to run.
Init ==
    /\ _data = <<>>
    /\ _new_data = FALSE
    /\ _processing = FALSE
    /\ _active_runways = Pair28
    /\ lock = "free"
    /\ threads = EmptyBag
    /\ started = 0
    /\ cpc = "ready"
    /\ ret = <<>>
    /\ idleSeen = FALSE
    /\ polite = TRUE
    /\ last_outcome = "none"
    /\ overlap = FALSE
    /\ call = [fn |-> "none"]

Live == BagToSet(threads)
AtPc(p) == {th \in Live : th.pc = p}

\* Thread th takes a step to local state th2 / returns from _grab_data.
Becomes(th, th2) == threads' = (threads (-) SetToBag({th})) (+) SetToBag({th2})
Returns(th) == threads' = threads (-) SetToBag({th})

\* Besides the locals of _grab_data a thread carries two history fields:
\* returned: get_flight_details has returned for the current flight;
\* due: candidates so far with an operation, a runway and a returned lookup.
At(p) == [pc |-> p, flights |-> <<>>, idx |-> 0, retries |-> 0, data |-> <<>>,
          returned |-> FALSE, due |-> 0]

\* ---------------------------------------------------------------- grab_data
\* Thread(target=self._grab_data).start(): the thread exists, has not run yet.
grab_data ==
    /\ cpc = "ready"
    /\ started < MaxCycles
    /\ started' = started + 1
    /\ threads' = threads (+) SetToBag({At("start")})
    /\ polite' = (polite /\ (idleSeen \/ started = 0))
    /\ idleSeen' = FALSE
    /\ ret' = <<>>
    /\ overlap' = (overlap \/ Live # {})
    /\ UNCHANGED <<_data, _new_data, _processing, _active_runways, lock, cpc, call, last_outcome>>

\* --------------------------------------------------------------- _grab_data
EnterNewData_Mutant(th) ==
    /\ th.pc = "start"
    /\ lock = "free"
    /\ lock' = "worker"
    /\ Becomes(th, At("enter_processing"))
    /\ UNCHANGED <<_data, _new_data, _processing, _active_runways, started, cpc, ret,
                   idleSeen, polite, call, last_outcome, overlap>>

\* with self._lock: self._new_data = False
EnterNewData(th) ==
    /\ th.pc = "start"
    /\ lock = "free"
    /\ lock' = "worker"
    /\ _new_data' = FALSE
    /\ Becomes(th, At("enter_processing"))
    /\ UNCHANGED <<_data, _processing, _active_runways, started, cpc, ret, idleSeen,
                   polite, call, last_outcome, overlap>>

\* self._processing = True, and the lock is released; data = []
EnterProcessing(th) ==
    /\ th.pc = "enter_processing"
    /\ lock = "worker"
    /\ _processing' = TRUE
    /\ lock' = "free"
    /\ Becomes(th, At("get_flights"))
    /\ UNCHANGED <<_data, _new_data, _active_runways, started, cpc, ret, idleSeen,
                   polite, call, last_outcome, overlap>>

\* flights[:MAX_FLIGHT_LOOKUP]
Candidates(fl) ==
    SubSeq(fl, 1, IF Len(fl) < MAX_FLIGHT_LOOKUP THEN Len(fl) ELSE MAX_FLIGHT_LOOKUP)

\* get_bounds/get_flights raise: control goes to `except Exception`.
GetFlightsRaises(th) ==
    /\ th.pc = "get_flights"
    /\ Becomes(th, At("except"))
    /\ UNCHANGED <<_data, _new_data, _processing, _active_runways, lock, started,
                   cpc, ret, idleSeen, polite, last_outcome, call, overlap>>

GetFlights_Mutant(th) ==
    /\ th.pc = "get_flights"
    /\ \E fl \in ProviderFlights :
         /\ _active_runways' = determine_runway_config(Candidates(fl))
         /\ IF Len(Candidates(fl)) = 0
            THEN Becomes(th, At("publish"))
            ELSE Becomes(th, [At("lookup") EXCEPT !.flights = fl, !.idx = 1,
                                                  !.retries = RETRIES])
    /\ UNCHANGED <<_data, _new_data, _processing, lock, started, cpc, ret, idleSeen,
                   polite, call, last_outcome, overlap>>

\* get_flights returns; determine_runway_config(flights) stores the pair (no
\* lock is taken); the for loop starts, or is over at once.
GetFlights(th) ==
    /\ th.pc = "get_flights"
    /\ \E fl \in ProviderFlights :
         /\ _active_runways' = determine_runway_config(fl)
         /\ IF Len(Candidates(fl)) = 0
            THEN Becomes(th, At("publish"))
            ELSE Becomes(th, [At("lookup") EXCEPT !.flights = fl, !.idx = 1,
                                                  !.retries = RETRIES])
    /\ UNCHANGED <<_data, _new_data, _processing, lock, started, cpc, ret, idleSeen,
                   polite, call, last_outcome, overlap>>

\* The dict literal of lines 122-131.
flight_data(flight, operation, runway, details) ==
    [callsign |-> flight.callsign, operation |-> operation, runway |-> runway,
     aircraft |-> aircraft_code(details), airline |-> airline_name(details),
     altitude |-> flight.altitude, vertical_speed |-> flight.vertical_speed,
     heading |-> flight.heading]

\* Building flight_data raises AttributeError when an attribute it reads is missing.
BuildRaises(flight) ==
    ~hasattr(flight, "callsign") \/ ~hasattr(flight, "heading")

\* The for loop moves to the next candidate, or is over, with local data d.
NextCandidate(th, d) ==
    IF th.idx < Len(Candidates(th.flights))
    THEN [th EXCEPT !.idx = th.idx + 1, !.retries = RETRIES, !.data = d,
                    !.returned = FALSE]
    ELSE [At("publish") EXCEPT !.data = d, !.due = th.due]

Retry_Mutant(th) ==
    IF th.retries - 1 # 0
    THEN [th EXCEPT !.retries = th.retries - 1]
    ELSE At("except")

\* except (KeyError, AttributeError): retries -= 1; sleep; `while retries`.
Retry(th) ==
    IF th.retries - 1 # 0
    THEN [th EXCEPT !.retries = th.retries - 1]
    ELSE NextCandidate(th, th.data)

\* One pass of the while loop in which get_flight_details returns `details`.
AfterLookup(th, details, active_runways) ==
    LET flight == Candidates(th.flights)[th.idx]
        operation == determine_operation(flight)
        runway == determine_runway(flight, active_runways)
        seen == [th EXCEPT !.returned = TRUE,
                           !.due = IF operation # None /\ runway # None /\ ~th.returned
                                   THEN th.due + 1 ELSE th.due]
    IN IF operation # None /\ runway # None
       THEN IF BuildRaises(flight)
            THEN Retry(seen)
            ELSE NextCandidate(seen, Append(th.data,
                                            flight_data(flight, operation, runway, details)))
       ELSE NextCandidate(seen, th.data)

Lookup(th) ==
    /\ th.pc = "lookup"
    /\ \E details \in DetailPayloads : Becomes(th, AfterLookup(th, details, _active_runways))
    /\ UNCHANGED <<_data, _new_data, _processing, _active_runways, lock, started,
                   cpc, ret, idleSeen, polite, last_outcome, call, overlap>>

\* get_flight_details raises KeyError or AttributeError (fields missing).
LookupFieldAbsent(th) ==
    /\ th.pc = "lookup"
    /\ Becomes(th, Retry(th))
    /\ UNCHANGED <<_data, _new_data, _processing, _active_runways, lock, started,
                   cpc, ret, idleSeen, polite, last_outcome, call, overlap>>

\* get_flight_details raises anything else: control goes to `except Exception`.
LookupRaises(th) ==
    /\ th.pc = "lookup"
    /\ Becomes(th, At("except"))
    /\ UNCHANGED <<_data, _new_data, _processing, _active_runways, lock, started,
                   cpc, ret, idleSeen, polite, last_outcome, call, overlap>>

PublishNewData_Mutant(th) ==
    /\ th.pc = "publish"
    /\ _new_data' = TRUE
    /\ Becomes(th, [th EXCEPT !.pc = "publish_processing"])
    /\ UNCHANGED <<_data, _processing, _active_runways, lock, started, cpc, ret,
                   idleSeen, polite, last_outcome, call, overlap>>

\* with self._lock: self._new_data = True
PublishNewData(th) ==
    /\ th.pc = "publish"
    /\ lock = "free"
    /\ lock' = "worker"
    /\ _new_data' = TRUE
    /\ Becomes(th, [th EXCEPT !.pc = "publish_processing"])
    /\ UNCHANGED <<_data, _processing, _active_runways, started, cpc, ret, idleSeen,
                   polite, call, last_outcome, overlap>>

PublishProcessing_Mutant(th) ==
    /\ th.pc = "publish_processing"
    /\ Becomes(th, [th EXCEPT !.pc = "publish_data"])
    /\ UNCHANGED <<_data, _new_data, _processing, _active_runways, lock, started, cpc,
                   ret, idleSeen, polite, call, last_outcome, overlap>>

\* self._processing = False
PublishProcessing(th) ==
    /\ th.pc = "publish_processing"
    /\ _processing' = FALSE
    /\ Becomes(th, [th EXCEPT !.pc = "publish_data"])
    /\ UNCHANGED <<_data, _new_data, _active_runways, lock, started, cpc, ret, idleSeen,
                   polite, call, last_outcome, overlap>>

\* self._data = data, the lock is released and the thread ends.
PublishData(th) ==
    /\ th.pc = "publish_data"
    /\ _data' = th.data
    /\ lock' = "free"
    /\ Returns(th)
    /\ last_outcome' = "success"
    /\ UNCHANGED <<_new_data, _processing, _active_runways, started, cpc, ret, idleSeen,
                   polite, call, overlap>>

\* except Exception: with self._lock: self._new_data = False
ExceptNewData(th) ==
    /\ th.pc = "except"
    /\ lock = "free"
    /\ lock' = "worker"
    /\ _new_data' = FALSE
    /\ Becomes(th, At("except_processing"))
    /\ UNCHANGED <<_data, _processing, _active_runways, started, cpc, ret, idleSeen,
                   polite, call, last_outcome, overlap>>

ExceptProcessing_Mutant(th) ==
    /\ th.pc = "except_processing"
    /\ _processing' = FALSE
    /\ _data' = <<>>
    /\ lock' = "free"
    /\ Returns(th)
    /\ last_outcome' = "failure"
    /\ UNCHANGED <<_new_data, _active_runways, started, cpc, ret, idleSeen,
                   polite, call, overlap>>

\* self._processing = False, the lock is released and the thread ends.
ExceptProcessing(th) ==
    /\ th.pc = "except_processing"
    /\ _processing' = FALSE
    /\ lock' = "free"
    /\ Returns(th)
    /\ last_outcome' = "failure"
    /\ UNCHANGED <<_data, _new_data, _active_runways, started, cpc, ret, idleSeen,
                   polite, call, overlap>>

\* ------------------------------------------------------- consumer properties
\* tracker.processing: with self._lock: return self._processing
processing ==
    /\ cpc = "ready"
    /\ lock = "free"
    /\ idleSeen' = ~_processing
    /\ ret' = <<>>
    /\ UNCHANGED <<_data, _new_data, _processing, _active_runways, lock, threads,
                   started, cpc, polite, call, last_outcome, overlap>>

DataClear_Mutant ==
    /\ cpc = "ready"
    /\ lock = "free"
    /\ lock' = "consumer"
    /\ cpc' = "data_return"
    /\ UNCHANGED <<_data, _new_data, _processing, _active_runways, threads, started,
                   ret, idleSeen, polite, last_outcome, call, overlap>>

\* tracker.data: with self._lock: self._new_data = False
DataClear ==
    /\ cpc = "ready"
    /\ lock = "free"
    /\ lock' = "consumer"
    /\ _new_data' = FALSE
    /\ cpc' = "data_return"
    /\ UNCHANGED <<_data, _processing, _active_runways, threads, started, ret, idleSeen,
                   polite, call, last_outcome, overlap>>

\* return self._data, and the lock is released.
DataReturn ==
    /\ cpc = "data_return"
    /\ ret' = _data
    /\ lock' = "free"
    /\ cpc' = "ready"
    /\ UNCHANGED <<_data, _new_data, _processing, _active_runways, threads, started,
                   idleSeen, polite, call, last_outcome, overlap>>

Next ==
    \/ grab_data
    \/ processing
    \/ DataClear
    \/ DataReturn
    \/ \E th \in Live : EnterNewData(th)
    \/ \E th \in Live : EnterProcessing(th)
    \/ \E th \in Live : GetFlightsRaises(th)
    \/ \E th \in Live : GetFlights(th)
    \/ \E th \in Live : Lookup(th)
    \/ \E th \in Live : LookupFieldAbsent(th)
    \/ \E th \in Live : LookupRaises(th)
    \/ \E th \in Live : PublishNewData(th)
    \/ \E th \in Live : PublishProcessing(th)
    \/ \E th \in Live : PublishData(th)
    \/ \E th \in Live : ExceptNewData(th)
    \/ \E th \in Live : ExceptProcessing(th)

Spec == Init /\ [][Next]_vars

\* A step of some thread of _grab_data.
ThreadStep ==
    \E th \in Live :
        \/ EnterNewData(th) \/ EnterProcessing(th)
        \/ GetFlightsRaises(th) \/ GetFlights(th)
        \/ Lookup(th) \/ LookupFieldAbsent(th) \/ LookupRaises(th)
        \/ PublishNewData(th) \/ PublishProcessing(th) \/ PublishData(th)
        \/ ExceptNewData(th) \/ ExceptProcessing(th)

\* Fair scheduling with a provider whose calls all return or raise: the
\* threads keep taking steps whenever one of them again and again can (a
\* thread waiting for the lock gets it), and the consumer leaves the `with`
\* block of the data property. The consumer itself may stop calling anything.
SpecFair == Spec /\ SF_vars(ThreadStep) /\ WF_vars(DataReturn)

\* ------------------------------------- direct calls of the three primitives
\* The classification methods called on a fresh tracker, one call per step,
\* with arguments drawn from the sets below (all boundaries of the source's
\* comparisons, and every attribute present or missing).
Altitudes == {500, 1000, 1001, 3000, 3001}
VerticalSpeeds == {-10, -1, 0, 1, 15}
Headings == {79, 80, 100, 120, 121, 259, 260, 280, 300, 301}
Latitudes == {752121, 752122, 752202, 752282, 752322, 752349, 752376, 752382,
              752404, 752426, 752626, 752627}
Longitudes == {-2447590, -2447585, -2447580, -2447320, -2447160, -2447110, -2447060}

OperationFlights ==
    {[callsign |-> "T", altitude |-> a, vertical_speed |-> v] :
        a \in Altitudes, v \in VerticalSpeeds}
    \cup {[callsign |-> "T", altitude |-> a] : a \in Altitudes}
    \cup {[callsign |-> "T", vertical_speed |-> v] : v \in VerticalSpeeds}
    \cup {[callsign |-> "T"]}

PositionFlights ==
    {[callsign |-> "T", latitude |-> la, longitude |-> lo] :
        la \in Latitudes, lo \in Longitudes}
    \cup {[callsign |-> "T", latitude |-> la] : la \in Latitudes}
    \cup {[callsign |-> "T", longitude |-> lo] : lo \in Longitudes}
    \cup {[callsign |-> "T"]}

HeadingFlights ==
    {[callsign |-> "T", heading |-> h] : h \in Headings} \cup {[callsign |-> "T"]}

HeadingLists == UNION {[1..n -> HeadingFlights] : n \in 0..MaxFlights}

CallDetermineOperation ==
    /\ \E flight \in OperationFlights :
         call' = [fn |-> "determine_operation", flight |-> flight,
                  result |-> determine_operation(flight)]
    /\ UNCHANGED <<_data, _new_data, _processing, _active_runways, lock, threads,
                   started, cpc, ret, idleSeen, polite, last_outcome, overlap>>

CallDetermineRunway ==
    /\ \E flight \in PositionFlights :
         call' = [fn |-> "determine_runway", flight |-> flight,
                  active_runways |-> _active_runways,
                  result |-> determine_runway(flight, _active_runways)]
    /\ UNCHANGED <<_data, _new_data, _processing, _active_runways, lock, threads,
                   started, cpc, ret, idleSeen, polite, last_outcome, overlap>>

CallDetermineRunwayConfig ==
    /\ \E fl \in HeadingLists :
         /\ _active_runways' = determine_runway_config(fl)
         /\ call' = [fn |-> "determine_runway_config", flights |-> fl]
    /\ UNCHANGED <<_data, _new_data, _processing, lock, threads, started, cpc, ret,
                   idleSeen, polite, last_outcome, overlap>>

NextPure ==
    \/ CallDetermineOperation
    \/ CallDetermineRunway
    \/ CallDetermineRunwayConfig

SpecPure == Init /\ [][NextPure]_vars

\* ------------------------------------------------------------------ claims

\* C1: when grab_data() has returned, the tracker reports processing = True
\* until that cycle completes: whenever a cycle is started and not completed
\* and the consumer can take the lock, `tracker.processing` is True.
C1_ProcessingOnReturn ==
    (Live # {} /\ lock = "free") => _processing

\* C2: for a consumer that calls grab_data() only after it has read
\* `tracker.processing` as False, at most one cycle is between its start and
\* its completion.
C2_NoOverlap ==
    polite => BagCardinality(threads) <= 1

\* C3: a grab_data() call made while a cycle is processing is a no-op: it
\* starts no second cycle.
C3_StartWhileProcessingIsNoOp ==
    [][(_processing /\ started' = started + 1) => threads' = threads]_vars

\* C4: a cycle that fails completes with new_data = False and processing =
\* False, publishes nothing (no step of a thread in its except block changes
\* the last result) and ends in the except block, which raises nothing.
C4_FailedCycle ==
    [][/\ (AtPc("except") # {} /\ AtPc("except")' = {} /\ (AtPc("except_processing") # {})')
            => (_data' = _data /\ ~_new_data')
       /\ (AtPc("except_processing") # {} /\ AtPc("except_processing")' = {})
            => /\ _data' = _data
               /\ ~_new_data'
               /\ ~_processing'
               /\ lock' = "free"
               /\ last_outcome' = "failure"]_vars

C4_Witness ==
    /\ last_outcome = "failure"
    /\ Live = {}
    /\ _data # <<>>
    /\ ~_new_data
    /\ ~_processing

\* C5: a successful cycle sets last result, new_data = True and
\* processing = False as one step for every reader that takes the lock: the
\* lock is never free between the three assignments, and when it is released
\* the last result is the cycle's complete list, new_data is True and
\* processing is False.
C5_AtomicPublish ==
    /\ [](lock = "free" => AtPc("publish_processing") \cup AtPc("publish_data") = {})
    /\ [][(AtPc("publish_data") # {} /\ AtPc("publish_data")' = {})
            => /\ \E th \in AtPc("publish_data") : _data' = th.data
               /\ _new_data'
               /\ ~_processing'
               /\ lock' = "free"]_vars

C5_Witness ==
    /\ last_outcome = "success"
    /\ lock = "free"
    /\ _new_data
    /\ ~_processing
    /\ _data # <<>>

\* C6: `tracker.data` returns the last result and clears new_data, changing
\* nothing else; after it new_data is False, and only a completing cycle
\* changes the last result or sets new_data again, so a second read with no
\* cycle completing in between returns the same records with new_data False.
C6_ReadData ==
    [][/\ (cpc = "ready" /\ cpc' = "data_return")
            => /\ ~_new_data'
               /\ <<_data, _processing, _active_runways>>' = <<_data, _processing, _active_runways>>
       /\ (cpc = "data_return" /\ cpc' = "ready")
            => /\ ret' = _data
               /\ ~_new_data'
               /\ <<_data, _processing, _active_runways>>' = <<_data, _processing, _active_runways>>
       /\ (_data' # _data \/ (_new_data' /\ ~_new_data))
            => /\ AtPc("publish") \cup AtPc("publish_data") # {}
               /\ threads' # threads
               /\ cpc' = cpc]_vars

C6_Witness ==
    /\ cpc = "ready"
    /\ ret # <<>>
    /\ ret = _data
    /\ ~_new_data
    /\ last_outcome = "success"

\* C7: every record of the last result has a runway that is one of the two
\* entries of the current active pair.
C7_RunwayInActivePair ==
    \A i \in DOMAIN _data :
        \E k \in DOMAIN _active_runways : _data[i].runway = _active_runways[k]

\* C8: determine_operation returns Landing for every altitude <= 1000 with
\* vertical_speed < 0, Takeoff for every altitude <= 3000 with
\* vertical_speed > 0 that is not a Landing, and None in every other case:
\* altitude > 3000, vertical_speed = 0, altitude in (1000, 3000] with
\* vertical_speed < 0, or altitude or vertical_speed missing.
C8_Classification ==
    call.fn = "determine_operation" =>
        LET f == call.flight
            r == call.result
        IN IF "altitude" \notin DOMAIN f \/ "vertical_speed" \notin DOMAIN f
           THEN r = None
           ELSE /\ (f.altitude <= 1000 /\ f.vertical_speed < 0) => r = "Landing"
                /\ (f.altitude <= 3000 /\ f.vertical_speed > 0) => r = "Takeoff"
                /\ f.altitude > 3000 => r = None
                /\ f.vertical_speed = 0 => r = None
                /\ (f.altitude > 1000 /\ f.vertical_speed < 0) => r = None
                /\ r \in {"Landing", "Takeoff", None}

C8_Witness ==
    /\ call.fn = "determine_operation"
    /\ DOMAIN call.flight = {"callsign", "altitude", "vertical_speed"}
    /\ call.flight.altitude = 1000
    /\ call.flight.vertical_speed < 0
    /\ call.result = "Landing"

\* Flights of a list counted in the heading band [lo, hi].
InBand(fl, lo, hi) ==
    {i \in DOMAIN fl : "heading" \in DOMAIN fl[i] /\ lo <= fl[i].heading /\ fl[i].heading <= hi}

\* C9: determine_runway_config counts only flights that have a heading, as
\* west band when 260 <= heading <= 300 and east band when
\* 80 <= heading <= 120, and sets the active pair to 10L/10R exactly when the
\* east count is strictly greater than the west count, otherwise (tie and
\* empty list included) to 28L/28R; the active pair is always one of the two
\* pairs, and 28L/28R before any call.
C9_RunwayConfig ==
    /\ _active_runways \in {Pair28, Pair10}
    /\ call.fn = "none" => _active_runways = Pair28
    /\ call.fn = "determine_runway_config" =>
         LET east == Cardinality(InBand(call.flights, 80, 120))
             west == Cardinality(InBand(call.flights, 260, 300))
         IN _active_runways = IF east > west THEN Pair10 ELSE Pair28

C9_Witness ==
    /\ call.fn = "determine_runway_config"
    /\ Cardinality(InBand(call.flights, 80, 120)) = 1
    /\ Cardinality(InBand(call.flights, 260, 300)) = 1
    /\ _active_runways = Pair28

\* Squared planar distance of the point (lat, lon) to a runway threshold.
ThresholdDistance2(lat, lon, runway) ==
    (lat - RUNWAY_28_THRESHOLD[runway].lat) * (lat - RUNWAY_28_THRESHOLD[runway].lat)
      + (lon - RUNWAY_28_THRESHOLD[runway].lon) * (lon - RUNWAY_28_THRESHOLD[runway].lon)

\* C10: determine_runway considers only the two thresholds of the active
\* pair, returns None when the smaller of the two planar distances exceeds
\* 0.01 degrees (200 units) or latitude/longitude is missing, and otherwise
\* the threshold with the smaller distance, the first-listed one on a tie.
C10_NearestRunway ==
    call.fn = "determine_runway" =>
        LET f == call.flight
            pair == call.active_runways
            r == call.result
        IN IF "latitude" \notin DOMAIN f \/ "longitude" \notin DOMAIN f
           THEN r = None
           ELSE LET d1 == ThresholdDistance2(f.latitude, f.longitude, pair[1])
                    d2 == ThresholdDistance2(f.latitude, f.longitude, pair[2])
                    smaller == IF d1 <= d2 THEN d1 ELSE d2
                IN IF smaller > 200 * 200
                   THEN r = None
                   ELSE r = IF d1 <= d2 THEN pair[1] ELSE pair[2]

C10_Witness ==
    /\ call.fn = "determine_runway"
    /\ call.active_runways = Pair10
    /\ DOMAIN call.flight = {"callsign", "latitude", "longitude"}
    /\ ThresholdDistance2(call.flight.latitude, call.flight.longitude, "10L")
         = ThresholdDistance2(call.flight.latitude, call.flight.longitude, "10R")
    /\ call.result = "10L"


\* C11: a candidate flight contributes exactly one record to the cycle's
\* result if and only if it has an operation, a runway and a detail lookup
\* that returned, whatever other fields (callsign, heading) it lacks, and the
\* records are in provider order. `due` counts the flights that satisfy the
\* right-hand side, so the records collected must be as many, and their
\* callsigns must follow the order of the candidates.
C11_OneRecordPerQualifyingFlight ==
    \A th \in Live :
        /\ Len(th.data) = th.due
        /\ th.pc = "lookup" =>
               LET cs == Candidates(th.flights)
               IN \A i, j \in 1..Len(th.data) :
                      i < j => \E a, b \in 1..Len(cs) :
                                   /\ a < b
                                   /\ cs[a].callsign = th.data[i].callsign
                                   /\ cs[b].callsign = th.data[j].callsign

\* C12: detail lookups are issued only for the first MAX_FLIGHT_LOOKUP flights,
\* at most RETRIES times per flight, and never again for a flight once one of
\* its lookups has not failed with missing fields. A thread at "lookup" is
\* about to call get_flight_details for candidate idx: idx is within the
\* first MAX_FLIGHT_LOOKUP, fewer than RETRIES lookups were spent on it
\* (retries counts down from RETRIES), and none of them has returned.
C12_BoundedLookups ==
    \A th \in AtPc("lookup") :
        /\ th.idx \in 1..MAX_FLIGHT_LOOKUP
        /\ th.retries \in 1..RETRIES
        /\ ~th.returned

PairOfFullList(fl) ==
    IF Cardinality(InBand(fl, 80, 120)) > Cardinality(InBand(fl, 260, 300))
    THEN Pair10 ELSE Pair28

\* C14: a cycle infers the active pair from the whole flight list, flights
\* beyond the first MAX_FLIGHT_LOOKUP included, and stores it before any
\* runway lookup of that cycle; so, as long as no cycle was started while
\* another was running, the active pair during the lookups is the one this
\* cycle inferred and every record the cycle has collected has a runway of it.
C14_PairOfThisCycle ==
    ~overlap =>
        \A th \in Live :
            /\ th.pc = "lookup" => _active_runways = PairOfFullList(th.flights)
            /\ \A i \in 1..Len(th.data) :
                   \E k \in 1..Len(_active_runways) : th.data[i].runway = _active_runways[k]

\* A second, non-overlapping cycle has inferred 10L/10R from a flight beyond
\* the first MAX_FLIGHT_LOOKUP, after a first cycle had inferred 10L/10R or 28L/28R.
C14_Witness ==
    /\ ~overlap
    /\ started = 2
    /\ \E th \in AtPc("lookup") :
           /\ Len(th.flights) > MAX_FLIGHT_LOOKUP
           /\ PairOfFullList(th.flights) = Pair10
           /\ PairOfFullList(Candidates(th.flights)) = Pair28
           /\ _active_runways = Pair10

\* Threads that are entering (the flag reset that belongs to the start of a
\* cycle) or completing (publishing a result or handling a failure).
AtStartOrCompletion ==
    {th \in Live : th.pc \in {"start", "enter_processing", "publish", "publish_processing",
                              "publish_data", "except", "except_processing"}}

\* C15: between its start and its completion a cycle changes nothing of what
\* data, new_data and active_runways show: every step that changes the last
\* result, the new-data flag or the active pair is a step of the consumer
\* reading the data or a step of a thread that is starting or completing;
\* in particular a cycle that fails leaves the active pair as it was.
C15_OneChangeAtCompletion ==
    [][<<_data, _new_data, _active_runways>>' # <<_data, _new_data, _active_runways>> =>
          \/ cpc' # cpc
          \/ \E th \in AtStartOrCompletion : CopiesIn(th, threads') < CopiesIn(th, threads)]_vars

\* C16: every write of the last result, the new-data flag, the processing
\* flag and the active pair is made while the lock is held, the write of the
\* active pair during a cycle included: a step that changes one of them takes
\* the lock, holds it or releases it.
C16_WritesUnderLock ==
    [][<<_data, _new_data, _processing, _active_runways>>'
           # <<_data, _new_data, _processing, _active_runways>> =>
          (lock # "free" \/ lock' # "free")]_vars

\* C17 as stated: in every reachable state, overlapping cycles included, the
\* new-data flag and the processing flag are never both true.
C17_FlagsNeverBothTrue ==
    ~(_new_data /\ _processing)

\* C17 amended: in every reachable state in which the lock is free, that is
\* in every state a reader of the flags can see, the new-data flag and the
\* processing flag are not both true, overlapping cycles included; both are
\* true only inside the locked block that publishes a result.
C17_FlagsNotBothTrueUnlocked ==
    /\ lock = "free" => ~(_new_data /\ _processing)
    /\ (_new_data /\ _processing) => AtPc("publish_processing") # {}

\* A cycle has published while an overlapping one, started before, has yet to
\* enter: the flag is set, the lock is free and a thread is live.
C17_Witness ==
    /\ lock = "free"
    /\ _new_data
    /\ AtPc("start") # {}
    /\ last_outcome = "success"

\* C18: once a cycle has completed with success and set the new-data flag,
\* the flag stays true until the consumer reads the data or starts a cycle;
\* the completion, success or failure, of an overlapping cycle never clears
\* it. A step that clears the flag is a step of the consumer reading the data
\* or the flag reset of a thread that a grab_data call has started.
C18_FlagKeptUntilConsumed ==
    [][(_new_data /\ ~_new_data') =>
          \/ cpc' # cpc
          \/ \E th \in AtPc("start") : CopiesIn(th, threads') < CopiesIn(th, threads)]_vars

\* C19: when every provider call returns or raises and scheduling is fair,
\* every started cycle eventually completes, and when all started cycles have
\* completed the processing flag is false; so the flag does not stay true
\* forever.
C19_CyclesComplete ==
    /\ [](Live # {} => <>(Live = {}))
    /\ [](Live = {} => ~_processing)
    /\ [](_processing => <>(~_processing))

\* Two cycles were started and both have completed.
C19_Witness ==
    /\ started = 2
    /\ Live = {}
    /\ last_outcome # "none"
    /\ ~_processing

====
